---------------------------- MODULE Spec2Model ----------------------------
(***************************************************************************)
(* burma-static (src/src/index.ts): route generation from a directory      *)
(* tree and the request handler that serves the routes through the         *)
(* process-wide `store`.                                                   *)
(*                                                                         *)
(* Strings that are paths are modelled by their split on "/", and every    *)
(* segment by its split on ".": the string "public/index.html" is          *)
(* << <<"public">>, <<"index","html">> >>, "" is << <<"">> >>, "." is      *)
(* << <<"","">> >> and "/" is << <<"">>, <<"">> >>.  The encoding is       *)
(* one-to-one, so string equality is equality of encodings.                *)
(***************************************************************************)
EXTENDS Integers, Sequences, FiniteSets, TLC

\* ------------------------------------------------------------------------
\* Optional values (`undefined` or a value).
Undef == {}
Some(v) == {v}
Get(o) == CHOOSE v \in o : TRUE

\* ------------------------------------------------------------------------
\* String helpers on the encoding.
EmptySeg == <<"">>
DotSeg == <<"", "">>
DotDotSeg == <<"", "", "">>
EmptyStr == <<EmptySeg>>

Last(s) == s[Len(s)]
Front(s) == SubSeq(s, 1, Len(s) - 1)
SeqToSet(s) == {s[i] : i \in 1..Len(s)}

\* a + "/" + b on strings
JoinSlash(a, b) == a \o b

\* Array.prototype.join("/") of a list of slash-free strings
ArrayJoin(list) == IF Len(list) = 0 THEN EmptyStr ELSE list

\* posix normalizeString: drops "" and "." segments, resolves ".."
RECURSIVE normalizeString(_, _, _)
normalizeString(segs, acc, allowAboveRoot) ==
    IF Len(segs) = 0 THEN acc
    ELSE LET s == Head(segs)
             rest == Tail(segs)
         IN  IF s = EmptySeg \/ s = DotSeg
               THEN normalizeString(rest, acc, allowAboveRoot)
             ELSE IF s = DotDotSeg
               THEN IF Len(acc) > 0 /\ Last(acc) # DotDotSeg
                      THEN normalizeString(rest, Front(acc), allowAboveRoot)
                    ELSE IF allowAboveRoot
                      THEN normalizeString(rest, Append(acc, s), allowAboveRoot)
                    ELSE normalizeString(rest, acc, allowAboveRoot)
             ELSE normalizeString(rest, Append(acc, s), allowAboveRoot)

\* path.normalize
pathNormalize(p) ==
    IF p = EmptyStr THEN <<DotSeg>>
    ELSE LET isAbsolute == Len(p) >= 2 /\ p[1] = EmptySeg
             trailing == Len(p) >= 2 /\ Last(p) = EmptySeg
             core == normalizeString(p, <<>>, ~isAbsolute)
         IN  IF Len(core) = 0
               THEN IF isAbsolute THEN <<EmptySeg, EmptySeg>>
                    ELSE IF trailing THEN <<DotSeg, EmptySeg>> ELSE <<DotSeg>>
             ELSE (IF isAbsolute THEN <<EmptySeg>> ELSE <<>>)
                  \o core
                  \o (IF trailing THEN <<EmptySeg>> ELSE <<>>)

\* path.join(...args): the non-empty arguments joined by "/", then normalized
RECURSIVE joinArgs(_)
joinArgs(args) ==
    IF Len(args) = 0 THEN <<>>
    ELSE IF Head(args) = EmptyStr THEN joinArgs(Tail(args))
    ELSE JoinSlash(Head(args), joinArgs(Tail(args)))

pathJoin(args) ==
    LET joined == joinArgs(args)
    IN  IF Len(joined) = 0 THEN <<DotSeg>> ELSE pathNormalize(joined)

\* path.relative(from, to) for absolute, normalized from and to
RECURSIVE commonLen(_, _)
commonLen(a, b) ==
    IF Len(a) = 0 \/ Len(b) = 0 \/ Head(a) # Head(b) THEN 0
    ELSE 1 + commonLen(Tail(a), Tail(b))

pathRelative(from, to) ==
    LET f == normalizeString(from, <<>>, FALSE)
        t == normalizeString(to, <<>>, FALSE)
        n == commonLen(f, t)
        ups == [i \in 1..(Len(f) - n) |-> DotDotSeg]
        out == ups \o SubSeq(t, n + 1, Len(t))
    IN  IF Len(out) = 0 THEN EmptyStr ELSE out

\* path.parse(p) for a relative p: dir, base, name (stem), ext
pathParse(p) ==
    LET base == Last(p)
        dir == IF Len(p) >= 2 THEN Front(p) ELSE EmptyStr
        hasExt == Len(base) >= 2 /\ ~(Len(base) = 2 /\ base[1] = "")
                  /\ base # DotDotSeg
    IN  [dir |-> dir,
         base |-> base,
         ext |-> IF hasExt THEN <<"", Last(base)>> ELSE EmptySeg,
         name |-> IF hasExt THEN Front(base) ELSE base]


\* ------------------------------------------------------------------------
\* The file system seen at setup time: the working directory and the
\* entries in the order fs.globSync walks them.  kind is what the entry is:
\* "file", "dir", "linkfile" (symbolic link to a regular file), "linkdir"
\* (symbolic link to a directory) or "fifo".
IsPrefix(a, b) == Len(a) <= Len(b) /\ SubSeq(b, 1, Len(a)) = a
EndsWith(s, suf) == Len(suf) <= Len(s)
                    /\ SubSeq(s, Len(s) - Len(suf) + 1, Len(s)) = suf

\* fs.statSync(path).isFile(): stat follows symbolic links
isFileMissesLinks(fsys, path) ==
    \E i \in 1..Len(fsys.entries) :
        fsys.entries[i].path = path /\ fsys.entries[i].kind = "file"

isFile(fsys, path) ==
    \E i \in 1..Len(fsys.entries) :
        /\ fsys.entries[i].path = path
        /\ fsys.entries[i].kind \in {"file", "linkfile"}

\* createPattern: `${dirtpath}/**/*`, `${dirtpath}/**/*.${ex}` or
\* `${dirtpath}/**/*.{a,b}`; the pattern string is kept as its parts
createPattern(dirtpath, ext) ==
    IF ext = Undef
      THEN [dir |-> dirtpath, tail |-> "*", exts |-> <<>>]
    ELSE IF Len(Get(ext)) = 1
      THEN [dir |-> dirtpath, tail |-> "*.ex", exts |-> <<Get(ext)[1]>>]
    ELSE [dir |-> dirtpath, tail |-> "*.{ex}", exts |-> Get(ext)]

\* whether the glob pattern matches an absolute path: any depth under
\* pattern.dir, the base name ending in "." followed by one of the extensions
globMatches(pattern, path) ==
    /\ IsPrefix(pattern.dir, path)
    /\ Len(path) > Len(pattern.dir)
    /\ \/ pattern.tail = "*"
       \/ \E i \in 1..Len(pattern.exts) :
            /\ Len(Last(path)) > Len(pattern.exts[i])
            /\ EndsWith(Last(path), pattern.exts[i])

\* _getFiles: fs.globSync(pattern), in the walk's order
_getFiles(fsys, pattern) ==
    LET hit(e) == globMatches(pattern, e.path)
        hits == SelectSeq(fsys.entries, hit)
    IN  [i \in 1..Len(hits) |-> hits[i].path]

\* [...new Set(list)]: first occurrences, in order
RECURSIVE dedupe(_, _)
dedupe(list, acc) ==
    IF Len(list) = 0 THEN acc
    ELSE IF Head(list) \in SeqToSet(acc) THEN dedupe(Tail(list), acc)
    ELSE dedupe(Tail(list), Append(acc, Head(list)))

defaultIgnores ==
    << <<"node_modules">>, <<"tsconfig", "json">>, <<"README", "md">>,
       <<"package", "json">>, <<"package-lock", "json">>, <<"LICENSE">> >>

createIgnoresReplacing(ignore) ==
    dedupe(IF ignore # Undef THEN Get(ignore) ELSE defaultIgnores, <<>>)

createIgnores(ignore) ==
    LET ign == defaultIgnores
        igns == IF ignore # Undef THEN Get(ignore) \o ign ELSE ign
    IN  dedupe(igns, <<>>)

filterFiles(fsys, files, ignsSet) ==
    LET keep(file) == ~(\E i \in 1..Len(file) : file[i] \in ignsSet)
        fls == SelectSeq(files, keep)
        reg(file) == isFile(fsys, file)
    IN  SelectSeq(fls, reg)

getFiles(fsys, staticDir, fileExt, ignore) ==
    LET dir == IF staticDir = Undef THEN <<DotSeg>> ELSE Get(staticDir)
        dirPath == pathJoin(<<fsys.cwd, dir>>)
        pattern == createPattern(dirPath, fileExt)
        _fls == _getFiles(fsys, pattern)
        ignsSet == SeqToSet(createIgnores(ignore))
    IN  filterFiles(fsys, _fls, ignsSet)

\* @burmajs/mime: extension -> {type, typeOf}, both possibly undefined
mimeType(ext) ==
    IF ext = <<"", "html">> THEN [type |-> Some("text/html"), typeOf |-> Some("text")]
    ELSE IF ext = <<"", "png">> THEN [type |-> Some("image/png"), typeOf |-> Some("image")]
    ELSE [type |-> Undef, typeOf |-> Undef]

IndexHtml == <<"index", "html">>
HtmlExt == <<"", "html">>
RootUrl == <<EmptySeg, EmptySeg>>

\* the url of one collected file (the body of the reduce callback)
routeUrl(fsys, rootpath, static_dir, file) ==
    LET relative == pathRelative(fsys.cwd, file)
        parsed == pathParse(relative)
        name == <<parsed.name>>
        ext == parsed.ext
        base == parsed.base
        _dir == parsed.dir
        _dir_name == ArrayJoin(Tail(_dir))
        mainIndex == _dir = static_dir /\ base = IndexHtml
        subIndex == _dir # static_dir /\ base = IndexHtml
        mainHtmls == _dir = static_dir /\ ext = HtmlExt
        subHtmls == _dir # static_dir /\ ext = HtmlExt
        mainFiles == _dir = static_dir /\ ext # HtmlExt
        subFiles == _dir # static_dir /\ ext # HtmlExt
    IN  IF mainIndex THEN rootpath
        ELSE IF subIndex THEN pathJoin(<<rootpath, _dir_name>>)
        ELSE IF mainHtmls THEN pathJoin(<<rootpath, name>>)
        ELSE IF subHtmls THEN pathJoin(<<rootpath, _dir_name, name>>)
        ELSE IF mainFiles THEN pathJoin(<<rootpath, <<base>> >>)
        ELSE IF subFiles THEN pathJoin(<<rootpath, _dir_name, <<base>> >>)
        ELSE EmptyStr

generateRoutes(fsys, options) ==
    LET rootpath == IF options.rootPath # Undef /\ Get(options.rootPath) # EmptyStr
                      THEN Get(options.rootPath) ELSE RootUrl
        files == getFiles(fsys, options.staticDir, options.fileExt, options.ignore)
        static_dir == IF options.staticDir = Undef THEN <<DotSeg>>
                      ELSE Get(options.staticDir)
        route(file) ==
            LET ext == pathParse(pathRelative(fsys.cwd, file)).ext
                _mimeType == mimeType(ext)
            IN  [file |-> file,
                 mime |-> IF _mimeType.type = Undef THEN "" ELSE Get(_mimeType.type),
                 typeofMime |-> IF _mimeType.typeOf = Undef THEN ""
                                ELSE Get(_mimeType.typeOf),
                 url |-> routeUrl(fsys, rootpath, static_dir, file),
                 base |-> Last(file)]
    IN  [routes |-> [i \in 1..Len(files) |-> route(files[i])]]


\* ------------------------------------------------------------------------
\* State.
VARIABLES
    fsys,       \* setup-time file system: [cwd, entries]
    options,    \* the GenerateRoutes options a direct caller passes
    routesOut,  \* what generateRoutes(options) returned, once called
    ignsOut,    \* what createIgnores(options.ignore) returned, once called
    routeObj,   \* per handler: the route table burmaStatic closed over
    store,      \* the imported `store`: one per process, url -> content
    present,    \* request-time disk: whether the path still names the file
    data,       \* request-time disk: the file's bytes, as a list of chunks
    diskOps,    \* how many times the disk was changed under the server
    pc,         \* per request: where its task stands
    request,    \* per request: handler called, request.url, request.method
    found,      \* per request: the route `find` returned
    response,   \* per request: statusCode, body written, ended
    log,        \* per request: the console.log line, once printed
    stuck,      \* per request: its readFile never completes
    pos,        \* per request: chunks its read stream has piped
    reads       \* per request: disk reads it issued (readFile, read stream)

routeVars == <<fsys, options, routesOut, ignsOut>>
serveVars == <<routeObj, store, present, data, diskOps, pc, request, found,
               response, log, stuck, pos, reads>>
vars == <<fsys, options, routesOut, ignsOut, routeObj, store, present, data,
          diskOps, pc, request, found, response, log, stuck, pos, reads>>

\* ------------------------------------------------------------------------
\* Bounds of the model.
MaxEntries == 2
MaxReq == 2
MaxDiskOps == 1

\* ------------------------------------------------------------------------
\* Names used in the modelled trees.
Srv == <<"srv">>
Public == <<"public">>
Site == <<"site">>
Blog == <<"blog">>
Assets == <<"assets">>
NodeModules == <<"node_modules">>
AboutHtml == <<"about", "html">>
PostHtml == <<"post", "html">>
LogoPng == <<"logo", "png">>
ReadmeMd == <<"README", "md">>

Cwds == { <<EmptySeg, Srv>>, <<EmptySeg, Srv, NodeModules, <<"app">> >> }

\* candidate entries, relative to the working directory, in walk order
Candidates ==
    << [rel |-> <<IndexHtml>>, kind |-> "file"],
       [rel |-> <<AboutHtml>>, kind |-> "file"],
       [rel |-> <<LogoPng>>, kind |-> "file"],
       [rel |-> <<Blog>>, kind |-> "dir"],
       [rel |-> <<Blog, IndexHtml>>, kind |-> "file"],
       [rel |-> <<Assets, LogoPng>>, kind |-> "file"],
       [rel |-> <<Public, IndexHtml>>, kind |-> "file"],
       [rel |-> <<Public, AboutHtml>>, kind |-> "file"],
       [rel |-> <<Public, LogoPng>>, kind |-> "file"],
       [rel |-> <<Public, Blog, IndexHtml>>, kind |-> "file"],
       [rel |-> <<Public, Blog, PostHtml>>, kind |-> "file"],
       [rel |-> <<Public, Assets, LogoPng>>, kind |-> "file"],
       [rel |-> <<Public, Site, IndexHtml>>, kind |-> "file"],
       [rel |-> <<Public, Site, Blog, IndexHtml>>, kind |-> "file"],
       [rel |-> <<Public, NodeModules, IndexHtml>>, kind |-> "file"],
       [rel |-> <<Public, ReadmeMd>>, kind |-> "file"],
       [rel |-> <<Public, <<"link", "html">> >>, kind |-> "linkfile"],
       [rel |-> <<Public, <<"current">> >>, kind |-> "linkdir"],
       [rel |-> <<Public, <<"pipe">> >>, kind |-> "fifo"] >>

\* the file system holding the candidates picked by `chosen`
TreeOf(cwd, chosen) ==
    LET pick(i) == [path |-> cwd \o Candidates[i].rel, kind |-> Candidates[i].kind]
        RECURSIVE build(_)
        build(i) == IF i > Len(Candidates) THEN <<>>
                    ELSE IF i \in chosen THEN <<pick(i)>> \o build(i + 1)
                    ELSE build(i + 1)
    IN  [cwd |-> cwd, entries |-> build(1)]

StaticDirs == { Undef, Some(<<DotSeg>>), Some(<<Public>>), Some(<<Public, Site>>),
                Some(<<DotSeg, Public>>) }
RootPaths == { Undef, Some(<<EmptySeg, <<"app">> >>),
               Some(<<EmptySeg, <<"app">>, EmptySeg>>) }
FileExts == { Undef, Some(<<>>), Some(<< <<"html">> >>),
              Some(<< <<"html">>, <<"png">> >>) }
Ignores == { Undef, Some(<<>>), Some(<<Assets>>),
             Some(<<NodeModules, Assets, Assets>>) }

OptionSets ==
    [rootPath : RootPaths, staticDir : StaticDirs, fileExt : FileExts,
     ignore : Ignores]

NoOptions == [rootPath |-> Undef, staticDir |-> Undef, fileExt |-> Undef,
              ignore |-> Undef]


\* ------------------------------------------------------------------------
\* The served tree and the handlers of the dispatcher model.
ServeCwd == <<EmptySeg, Srv>>
PublicIndex == ServeCwd \o <<Public, IndexHtml>>
SiteIndex == ServeCwd \o <<Site, IndexHtml>>

ServeFs ==
    [cwd |-> ServeCwd,
     entries |-> << [path |-> PublicIndex, kind |-> "file"],
                    [path |-> SiteIndex, kind |-> "file"] >>]

Files == {PublicIndex, SiteIndex}

InitialData ==
    [f \in Files |-> IF f = PublicIndex THEN <<"p1", "p2">> ELSE <<"s1", "s2">>]

Rewritten(f) ==
    IF f = PublicIndex THEN <<"P1", "P2">> ELSE <<"S1", "S2">>

Handlers == {"A", "B"}

AppUrl == <<EmptySeg, <<"app">> >>

\* handler A serves public/ and handler B serves site/, both under /app
HandlerOptions(h) ==
    [rootPath |-> Some(AppUrl),
     staticDir |-> IF h = "A" THEN Some(<<Public>>) ELSE Some(<<Site>>),
     fileExt |-> Undef,
     ignore |-> Undef]

\* /app, /app/, /app?x=1, /App
RequestUrls ==
    { AppUrl,
      <<EmptySeg, <<"app">>, EmptySeg>>,
      <<EmptySeg, <<"app?x=1">> >>,
      <<EmptySeg, <<"App">> >> }
Methods == {"GET", "POST"}
\* the request slots of this run, in the order the requests arrive
Requests == DOMAIN pc

html404 == <<"<h1>404 Not Found</h1>">>

NoResponse == [statusCode |-> 0, body |-> <<>>, ended |-> FALSE]

\* ------------------------------------------------------------------------
\* The functions the handler calls.

\* store.get / store.set of the imported store
storeGet(st, key) == IF key \in DOMAIN st THEN Some(st[key]) ELSE Undef

storeSetKeepFirst(st, key, value) ==
    IF key \in DOMAIN st THEN st
    ELSE [k \in DOMAIN st \cup {key} |-> IF k = key THEN value ELSE st[k]]

storeSet(st, key, value) ==
    [k \in DOMAIN st \cup {key} |-> IF k = key THEN value ELSE st[k]]

\* routeObj.routes.find((i) => i.url === request.url)
RECURSIVE findFrom(_, _, _)
findFrom(routes, url, i) ==
    IF i > Len(routes) THEN Undef
    ELSE IF routes[i].url = url THEN Some(routes[i])
    ELSE findFrom(routes, url, i + 1)

findIgnoringTrailingSlash(routes, url) ==
    findFrom(routes,
             IF Len(url) > 2 /\ Last(url) = EmptySeg THEN Front(url) ELSE url, 1)

find(routes, url) == findFrom(routes, url, 1)

send404(html, res) ==
    [res EXCEPT !.statusCode = 404, !.body = html, !.ended = TRUE]

sendContent(content, res) ==
    [res EXCEPT !.statusCode = 200, !.body = content, !.ended = TRUE]

\* sendFile sets the status and starts a read stream piped into the response;
\* the chunks arrive in later steps (StreamData, StreamEnd)
sendFile(file, res) ==
    [res EXCEPT !.statusCode = 200]

\* ------------------------------------------------------------------------
\* The dispatcher.
ServeInit(n) ==
    /\ routeObj = [h \in Handlers |-> Undef]
    /\ store = <<>>
    /\ present = [f \in Files |-> TRUE]
    /\ data = InitialData
    /\ diskOps = 0
    /\ pc = [r \in 1..n |-> "idle"]
    /\ request = [r \in 1..n |-> Undef]
    /\ found = [r \in 1..n |-> Undef]
    /\ response = [r \in 1..n |-> NoResponse]
    /\ log = [r \in 1..n |-> Undef]
    /\ stuck = [r \in 1..n |-> FALSE]
    /\ pos = [r \in 1..n |-> 0]
    /\ reads = [r \in 1..n |-> 0]

\* burmaStatic(options): builds the route table and returns the handler
BurmaStatic(h) ==
    /\ routeObj[h] = Undef
    /\ routeObj' = [routeObj EXCEPT ![h] =
                       Some(generateRoutes(ServeFs, HandlerOptions(h)))]
    /\ UNCHANGED <<store, present, data, diskOps, pc, request, found, response,
                   log, stuck, pos, reads>>

Completed == {q \in Requests : pc[q] = "done"}

\* the handler is called: it runs to its first await or to its end
Request(r, h, u, m, hangs) ==
    /\ pc[r] = "idle"
    /\ \A q \in Requests : q < r => pc[q] # "idle"
    /\ routeObj[h] # Undef
    /\ request' = [request EXCEPT ![r] =
                     Some([handler |-> h, url |-> u, method |-> m,
                           after |-> Completed])]
    /\ LET fnd == find(Get(routeObj[h]).routes, u)
       IN  /\ found' = [found EXCEPT ![r] = fnd]
           /\ IF fnd = Undef
                THEN /\ response' = [response EXCEPT ![r] = send404(html404, @)]
                     /\ pc' = [pc EXCEPT ![r] = "done"]
                     /\ hangs = FALSE
                     /\ UNCHANGED <<log, stuck, reads>>
              ELSE LET cached == storeGet(store, Get(fnd).url)
                   IN  IF cached # Undef
                         THEN /\ response' = [response EXCEPT ![r] =
                                                sendContent(Get(cached), @)]
                              /\ log' = [log EXCEPT ![r] =
                                           Some([method |-> m, url |-> u,
                                                 status |-> response'[r].statusCode,
                                                 cache |-> TRUE])]
                              /\ pc' = [pc EXCEPT ![r] = "done"]
                              /\ hangs = FALSE
                              /\ UNCHANGED <<stuck, reads>>
                       ELSE /\ pc' = [pc EXCEPT ![r] = "reading"]
                            /\ stuck' = [stuck EXCEPT ![r] = hangs]
                            /\ reads' = [reads EXCEPT ![r] = @ + 1]
                            /\ UNCHANGED <<response, log>>
    /\ UNCHANGED <<routeObj, store, present, data, diskOps, pos>>

\* a handler that lets one readFile run at a time: a read waits for the reads
\* of the requests before it
ReadFileDoneInTurn(r) ==
    /\ pc[r] = "reading"
    /\ ~stuck[r]
    /\ \A q \in Requests : q < r => pc[q] # "reading"
    /\ present[Get(found[r]).file]
    /\ store' = storeSet(store, Get(found[r]).url, data[Get(found[r]).file])
    /\ response' = [response EXCEPT ![r] = sendFile(Get(found[r]).file, @)]
    /\ reads' = [reads EXCEPT ![r] = @ + 1]
    /\ log' = [log EXCEPT ![r] =
                 Some([method |-> Get(request[r]).method, url |-> Get(request[r]).url,
                       status |-> response'[r].statusCode, cache |-> FALSE])]
    /\ pc' = [pc EXCEPT ![r] = "streaming"]
    /\ UNCHANGED <<routeObj, present, data, diskOps, request, found, stuck, pos>>

\* await fs.promises.readFile(found.file) resolves; the handler runs to its end
ReadFileDone(r) ==
    /\ pc[r] = "reading"
    /\ ~stuck[r]
    /\ present[Get(found[r]).file]
    /\ LET content == data[Get(found[r]).file]
       IN  store' = storeSet(store, Get(found[r]).url, content)
    /\ response' = [response EXCEPT ![r] = sendFile(Get(found[r]).file, @)]
    /\ reads' = [reads EXCEPT ![r] = @ + 1]
    /\ log' = [log EXCEPT ![r] =
                 Some([method |-> Get(request[r]).method, url |-> Get(request[r]).url,
                       status |-> response'[r].statusCode, cache |-> FALSE])]
    /\ pc' = [pc EXCEPT ![r] = "streaming"]
    /\ UNCHANGED <<routeObj, present, data, diskOps, request, found, stuck, pos>>

\* a handler that catches the failed read and answers 404
ReadFileFailSends404(r) ==
    /\ pc[r] = "reading"
    /\ ~stuck[r]
    /\ ~present[Get(found[r]).file]
    /\ response' = [response EXCEPT ![r] = send404(html404, @)]
    /\ pc' = [pc EXCEPT ![r] = "done"]
    /\ UNCHANGED <<routeObj, store, present, data, diskOps, request, found,
                   log, stuck, pos, reads>>

\* await fs.promises.readFile(found.file) rejects: the handler's promise rejects
ReadFileFail(r) ==
    /\ pc[r] = "reading"
    /\ ~stuck[r]
    /\ ~present[Get(found[r]).file]
    /\ pc' = [pc EXCEPT ![r] = "rejected"]
    /\ UNCHANGED <<routeObj, store, present, data, diskOps, request, found,
                   response, log, stuck, pos, reads>>

\* the read stream pipes its next chunk into the response
StreamData(r) ==
    /\ pc[r] = "streaming"
    /\ pos[r] < Len(data[Get(found[r]).file])
    /\ pos[r] > 0 \/ present[Get(found[r]).file]
    /\ response' = [response EXCEPT ![r].body =
                      Append(@, data[Get(found[r]).file][pos[r] + 1])]
    /\ pos' = [pos EXCEPT ![r] = @ + 1]
    /\ UNCHANGED <<routeObj, store, present, data, diskOps, pc, request, found,
                   log, stuck, reads>>

\* the read stream ends: pipe ends the response
StreamEnd(r) ==
    /\ pc[r] = "streaming"
    /\ pos[r] >= Len(data[Get(found[r]).file])
    /\ response' = [response EXCEPT ![r].ended = TRUE]
    /\ pc' = [pc EXCEPT ![r] = "done"]
    /\ UNCHANGED <<routeObj, store, present, data, diskOps, request, found,
                   log, stuck, pos, reads>>

\* the read stream cannot open the file: it emits 'error', nothing ends the response
StreamError(r) ==
    /\ pc[r] = "streaming"
    /\ pos[r] = 0
    /\ ~present[Get(found[r]).file]
    /\ pc' = [pc EXCEPT ![r] = "streamError"]
    /\ UNCHANGED <<routeObj, store, present, data, diskOps, request, found,
                   response, log, stuck, pos, reads>>

\* the environment rewrites a served file in place
WriteFile(f) ==
    /\ diskOps < MaxDiskOps
    /\ present[f]
    /\ data[f] # Rewritten(f)
    /\ data' = [data EXCEPT ![f] = Rewritten(f)]
    /\ diskOps' = diskOps + 1
    /\ UNCHANGED <<routeObj, store, present, pc, request, found, response, log,
                   stuck, pos, reads>>

\* the environment removes a served file (open streams keep reading it)
RemoveFile(f) ==
    /\ diskOps < MaxDiskOps
    /\ present[f]
    /\ present' = [present EXCEPT ![f] = FALSE]
    /\ diskOps' = diskOps + 1
    /\ UNCHANGED <<routeObj, store, data, pc, request, found, response, log,
                   stuck, pos, reads>>

NoFs == [cwd |-> <<>>, entries |-> <<>>]

Init ==
    /\ fsys = NoFs
    /\ options = NoOptions
    /\ routesOut = Undef
    /\ ignsOut = Undef
    /\ ServeInit(MaxReq)

Next ==
    \/ \E h \in Handlers : BurmaStatic(h) /\ UNCHANGED routeVars
    \/ \E r \in Requests, h \in Handlers, u \in RequestUrls, m \in Methods,
          hangs \in BOOLEAN :
          Request(r, h, u, m, hangs) /\ UNCHANGED routeVars
    \/ \E r \in Requests : ReadFileDone(r) /\ UNCHANGED routeVars
    \/ \E r \in Requests : ReadFileFail(r) /\ UNCHANGED routeVars
    \/ \E r \in Requests : StreamData(r) /\ UNCHANGED routeVars
    \/ \E r \in Requests : StreamEnd(r) /\ UNCHANGED routeVars
    \/ \E r \in Requests : StreamError(r) /\ UNCHANGED routeVars
    \/ \E f \in Files : WriteFile(f) /\ UNCHANGED routeVars
    \/ \E f \in Files : RemoveFile(f) /\ UNCHANGED routeVars

Spec == Init /\ [][Next]_vars

\* the same program with one more request arriving
InitThree ==
    /\ fsys = NoFs
    /\ options = NoOptions
    /\ routesOut = Undef
    /\ ignsOut = Undef
    /\ ServeInit(MaxReq + 1)

SpecThree == InitThree /\ [][Next]_vars

\* the event loop runs every callback whose I/O has completed
Progress(r) ==
    /\ \/ ReadFileDone(r) \/ ReadFileFail(r)
       \/ StreamData(r) \/ StreamEnd(r) \/ StreamError(r)
    /\ UNCHANGED routeVars

FairSpec == Init /\ [][Next]_vars /\ \A r \in 1..MaxReq : WF_vars(Progress(r))


\* ------------------------------------------------------------------------
\* Properties of the dispatcher.
Req(r) == Get(request[r])
RoutesOf(h) == Get(routeObj[h]).routes
Routed(h, u) == \E i \in 1..Len(RoutesOf(h)) : RoutesOf(h)[i].url = u
Arrives(r) == pc[r] = "idle" /\ pc'[r] # "idle"
Unchanged(f) == present[f] /\ data[f] = InitialData[f]
Response404 == [statusCode |-> 404, body |-> html404, ended |-> TRUE]

\* C1: a request whose url equals no route url of its handler is answered in
\* the same step with status 404 and the fixed document, whatever its method;
\* it issues no disk read, leaves the store as it was, and nothing about it
\* changes afterwards.
NotFoundYields404 ==
    [][\A r \in Requests :
         /\ (Arrives(r) /\ ~Routed(Req(r)'.handler, Req(r)'.url))
              => /\ response'[r] = Response404
                 /\ pc'[r] = "done"
                 /\ reads'[r] = 0
                 /\ store' = store
         /\ (pc[r] = "done" /\ found[r] = Undef)
              => /\ response'[r] = Response404
                 /\ pc'[r] = "done"
                 /\ reads'[r] = 0]_vars

\* a POST to /app/ (a route url plus a trailing slash) was answered 404
NotFoundWitness ==
    \E r \in Requests :
        /\ pc[r] = "done"
        /\ Req(r).url = <<EmptySeg, <<"app">>, EmptySeg>>
        /\ Req(r).method = "POST"
        /\ response[r] = Response404

\* C2 (as stated): of two requests for a route url on one handler, the file
\* unchanged, the second arriving after the first completed and the first
\* being the handler's first for that url: both are 200, the bodies are
\* equal, the first missed the cache and the second was served from it.
ServedTwice ==
    \A r1 \in Requests, r2 \in Requests :
        ( /\ pc[r1] = "done" /\ pc[r2] = "done"
          /\ found[r1] # Undef
          /\ Req(r1).handler = Req(r2).handler
          /\ Req(r1).url = Req(r2).url
          /\ r1 \in Req(r2).after
          /\ \A q \in Requests :
                (q < r1 /\ pc[q] # "idle" /\ Req(q).handler = Req(r1).handler)
                    => Req(q).url # Req(r1).url
          /\ Unchanged(Get(found[r1]).file) )
        => /\ response[r1].statusCode = 200
           /\ response[r2].statusCode = 200
           /\ response[r2].body = response[r1].body
           /\ Get(log[r1]).cache = FALSE
           /\ Get(log[r2]).cache = TRUE

\* C3 (as stated): two requests for one route url that both arrived while the
\* store had no entry for it, the files unchanged: both are 200 with the
\* whole content of the route's file, and the store then holds that content.
ConcurrentFirstRequests ==
    \A r1 \in Requests, r2 \in Requests :
        ( /\ r1 # r2
          /\ pc[r1] = "done" /\ pc[r2] = "done"
          /\ found[r1] # Undef /\ found[r2] # Undef
          /\ Get(found[r1]).url = Get(found[r2]).url
          /\ Get(log[r1]).cache = FALSE /\ Get(log[r2]).cache = FALSE
          /\ Unchanged(Get(found[r1]).file) /\ Unchanged(Get(found[r2]).file) )
        => /\ response[r1] = [statusCode |-> 200, ended |-> TRUE,
                              body |-> data[Get(found[r1]).file]]
           /\ response[r2] = [statusCode |-> 200, ended |-> TRUE,
                              body |-> data[Get(found[r2]).file]]
           /\ reads[r1] = 2 /\ reads[r2] = 2
           /\ Get(found[r1]).url \in DOMAIN store
           /\ store[Get(found[r1]).url] = data[Get(found[r1]).file]
           /\ store[Get(found[r2]).url] = data[Get(found[r2]).file]

\* C5 (as stated): a handler starts with an empty cache, and a request served
\* from the cache gets bytes of the file its own handler routes the url to.
CacheOwnedByHandler ==
    /\ \A h \in Handlers :
          (routeObj[h] # Undef
             /\ \A q \in Requests : pc[q] # "idle" => Req(q).handler # h)
            => \A i \in 1..Len(RoutesOf(h)) : RoutesOf(h)[i].url \notin DOMAIN store
    /\ \A r \in Requests :
          (pc[r] = "done" /\ log[r] # Undef /\ Get(log[r]).cache)
            => response[r].body \in {InitialData[Get(found[r]).file],
                                     Rewritten(Get(found[r]).file)}

CacheAppendOnly ==
    [][/\ \A u \in DOMAIN store : u \in DOMAIN store' /\ store'[u] = store[u]
       /\ \A u \in DOMAIN store' \ DOMAIN store :
            \E q \in Requests :
               /\ pc[q] = "reading" /\ pc'[q] = "streaming"
               /\ Get(found[q]).url = u
               /\ Routed(Req(q).handler, u)]_vars

\* C9 (amended): an entry of the store is never removed; the store changes
\* only when the readFile of a cache-miss request completes, and then the
\* entry for that request's route url holds the bytes that read returned
\* (replacing what an earlier miss on the same url stored) and every other
\* entry is as before; the url is one of its handler's route table.
CacheLastWriteWins ==
    [][/\ \A u \in DOMAIN store : u \in DOMAIN store'
       /\ \A q \in Requests :
            (pc[q] = "reading" /\ pc'[q] = "streaming")
              => /\ Routed(Req(q).handler, Get(found[q]).url)
                 /\ Get(found[q]).url \in DOMAIN store'
                 /\ store'[Get(found[q]).url] = data[Get(found[q]).file]
                 /\ \A u \in DOMAIN store :
                      u # Get(found[q]).url => store'[u] = store[u]
       /\ (store' # store)
            => \E q \in Requests : pc[q] = "reading" /\ pc'[q] = "streaming"]_vars

\* two misses on one url of one handler completed around a rewrite of the
\* file: the entry holds what the later read returned, the first response
\* was sent with the earlier bytes
CacheOverwrittenWitness ==
    \E r1 \in Requests, r2 \in Requests :
        /\ r1 # r2
        /\ pc[r1] = "done" /\ pc[r2] = "done"
        /\ Req(r1).handler = Req(r2).handler
        /\ found[r1] # Undef /\ found[r1] = found[r2]
        /\ ~Get(log[r1]).cache /\ ~Get(log[r2]).cache
        /\ response[r1].body = InitialData[Get(found[r1]).file]
        /\ store[Get(found[r1]).url] = Rewritten(Get(found[r1]).file)

Terminal == {"done", "rejected", "streamError"}

\* C10: a request whose readFile is not stuck reaches an end (a complete
\* response, or the failure of its own read) whatever the other requests do;
\* a completed request has an ended response with a status; and a request
\* whose readFile never completes stays suspended with nothing written.
ReadDelaysOnlyItself ==
    /\ \A r \in 1..MaxReq :
          (pc[r] \in {"reading", "streaming"} /\ ~stuck[r]) ~> (pc[r] \in Terminal)
    /\ [](\A r \in Requests :
            pc[r] = "done" => response[r].ended /\ response[r].statusCode \in {200, 404})
    /\ [][\A r \in Requests :
            (pc[r] = "reading" /\ stuck[r])
              => pc'[r] = "reading" /\ stuck'[r] /\ response'[r] = NoResponse]_vars

\* one request hangs on its read while a later miss on the same handler and
\* url has been answered in full
ReadDelaysWitness ==
    \E r1 \in Requests, r2 \in Requests :
        /\ r1 < r2
        /\ pc[r1] = "reading" /\ stuck[r1]
        /\ pc[r2] = "done" /\ found[r2] = found[r1]
        /\ Req(r1).handler = Req(r2).handler
        /\ ~Get(log[r2]).cache
        /\ response[r2] = [statusCode |-> 200, ended |-> TRUE,
                           body |-> data[Get(found[r2]).file]]

\* ------------------------------------------------------------------------
\* Route generation called directly: the inputs are drawn at the start, then
\* generateRoutes and createIgnores are applied to them.
Chosen == {c \in SUBSET (1..Len(Candidates)) : Cardinality(c) <= MaxEntries}

RouteInit ==
    /\ \E cwd \in Cwds, c \in Chosen : fsys = TreeOf(cwd, c)
    /\ options \in OptionSets
    /\ routesOut = Undef
    /\ ignsOut = Undef
    /\ ServeInit(0)

CallGenerateRoutes ==
    /\ routesOut = Undef
    /\ routesOut' = Some(generateRoutes(fsys, options))
    /\ UNCHANGED <<fsys, options, ignsOut>>
    /\ UNCHANGED serveVars

CallCreateIgnores ==
    /\ ignsOut = Undef
    /\ ignsOut' = Some(createIgnores(options.ignore))
    /\ UNCHANGED <<fsys, options, routesOut>>
    /\ UNCHANGED serveVars

RouteNext == CallGenerateRoutes \/ CallCreateIgnores

RouteSpec == RouteInit /\ [][RouteNext]_vars

\* ------------------------------------------------------------------------
\* Properties of route generation.
Routes == Get(routesOut).routes
RootPathOf(o) == IF o.rootPath = Undef THEN RootUrl ELSE Get(o.rootPath)
StaticRoot(o) ==
    pathJoin(<<fsys.cwd, IF o.staticDir = Undef THEN <<DotSeg>> ELSE Get(o.staticDir)>>)
Supplied(o) == IF o.ignore = Undef THEN {} ELSE SeqToSet(Get(o.ignore))
EffectiveIgnores(o) == SeqToSet(defaultIgnores) \cup Supplied(o)
HasSegmentIn(path, set) == \E i \in 1..Len(path) : path[i] \in set
MatchesFilter(path, o) ==
    \/ o.fileExt = Undef
    \/ \E i \in 1..Len(Get(o.fileExt)) :
          LET e == Get(o.fileExt)[i]
              base == Last(path)
          IN  Len(base) > Len(e) /\ SubSeq(base, Len(base) - Len(e) + 1, Len(base)) = e
UnderRoot(path, o) ==
    Len(path) > Len(StaticRoot(o)) /\ SubSeq(path, 1, Len(StaticRoot(o))) = StaticRoot(o)

\* the url the six-case table gives a file, its directory taken relative to
\* the static root
TableUrl(file, o) ==
    LET sub == SubSeq(file, Len(StaticRoot(o)) + 1, Len(file) - 1)
        subdir == IF Len(sub) = 0 THEN EmptyStr ELSE sub
        base == Last(file)
        stem == Front(base)
    IN  IF base = IndexHtml
          THEN IF Len(sub) = 0 THEN RootPathOf(o)
               ELSE pathJoin(<<RootPathOf(o), subdir>>)
        ELSE IF Len(base) >= 2 /\ Last(base) = "html"
          THEN pathJoin(<<RootPathOf(o), subdir, <<stem>> >>)
        ELSE pathJoin(<<RootPathOf(o), subdir, <<base>> >>)

\* C4 (as stated): every route's url is the one the six-case table gives its
\* file, for every static root and rootPath.
ClassificationTable ==
    routesOut # Undef
      => \A i \in 1..Len(Routes) : Routes[i].url = TableUrl(Routes[i].file, options)

\* C7: the list createIgnores returns has no duplicates and holds exactly the
\* defaults and the supplied names; no route generated with it is for a file
\* with a default-ignored segment in its path.
IgnoreUnion ==
    /\ ignsOut # Undef
         => /\ SeqToSet(Get(ignsOut)) = EffectiveIgnores(options)
            /\ SeqToSet(defaultIgnores) \subseteq SeqToSet(Get(ignsOut))
            /\ Cardinality(SeqToSet(Get(ignsOut))) = Len(Get(ignsOut))
    /\ routesOut # Undef
         => \A i \in 1..Len(Routes) :
               ~HasSegmentIn(Routes[i].file, SeqToSet(defaultIgnores))

\* a list overlapping the defaults and repeating a name was supplied, and a
\* README.md under the static root got no route
IgnoreUnionWitness ==
    /\ ignsOut # Undef /\ routesOut # Undef
    /\ options.ignore = Some(<<NodeModules, Assets, Assets>>)
    /\ options.staticDir = Some(<<Public>>)
    /\ options.fileExt = Undef
    /\ \E i \in 1..Len(fsys.entries) : Last(fsys.entries[i].path) = ReadmeMd
    /\ Len(Routes) = 1

\* the paths that get a route, in walk order: under the static root, matching
\* the extension filter, no segment of the absolute path ignored, of one of
\* the given kinds
Expected(o, kinds) ==
    LET ok(e) == /\ UnderRoot(e.path, o)
                 /\ MatchesFilter(e.path, o)
                 /\ ~HasSegmentIn(e.path, EffectiveIgnores(o))
                 /\ e.kind \in kinds
        sel == SelectSeq(fsys.entries, ok)
    IN  [i \in 1..Len(sel) |-> sel[i].path]

RouteFiles == [i \in 1..Len(Routes) |-> Routes[i].file]

==========================================================================
